---- MODULE Spec2Model ----
(***************************************************************************)
(* The Pristar P15 Bluetooth labeler: the bitmap codec, the BLE connection *)
(* handling of BluetoothDevice (connect / send_data / disconnect /         *)
(* is_connected) and PristarP15Labeler.print.                              *)
(*                                                                         *)
(* The bluepy peripheral and time.sleep are the environment.  The device   *)
(* refers to at most two peripherals, its _peripheral and the one its      *)
(* _characteristic came from; they are named 1 and 2, and `up` holds those *)
(* whose link is up.  A connected peripheral the device no longer refers   *)
(* to is counted in `leaked`.                                              *)
(* Every call on a peripheral either succeeds, raises BTLEDisconnectError  *)
(* (the link is down, or drops at this call) or raises another library     *)
(* error (BTLEException).  A call of one of the device's methods runs step *)
(* by step: pc is the position, the three frames hold the locals of        *)
(* print, send_data and connect.                                           *)
(***************************************************************************)
EXTENDS Integers, Sequences, FiniteSets, TLC

(* ------------------------------ bounds -------------------------------- *)

\* Link drops and refused opens the environment may inject into one call of
\* a method.
MaxFaults == 5

\* Other library errors the environment may inject into one call.
MaxErrors == 1

\* Links the adapter holds at the same time: Peripheral(address) is refused
\* beyond that.
MaxLinks == 2

\* connect(retries) and send_data(data, retries) are called with
\* retries in 0..MaxRetries and with the default.
MaxRetries == 2

\* The codec is applied to rasters of at most this width and height.
MaxWidth == 2

MaxHeight == 17

\* DeviceManager.scan() is called at most MaxScans times.
MaxScans == 2

(* -------------------------- program constants ------------------------- *)

\* send_data: for j in range(0, len(data), 96)
CHUNK == 96

\* retries=5 of send_data and connect
DefaultRetries == 5

\* SUPPORTED_TAPE_SIZES_MM / DEFAULT_TAPE_SIZE_MM
DEFAULT_TAPE_SIZE_MM == 12

Min(x, y) == IF x < y THEN x ELSE y

RECURSIVE Pow2(_)
Pow2(n) == IF n = 0 THEN 1 ELSE 2 * Pow2(n - 1)

\* list(range(start, stop, step)) for a negative step
RECURSIVE RangeDown(_, _, _)
RangeDown(start, stop, step) ==
    IF start > stop THEN <<start>> \o RangeDown(start + step, stop, step)
    ELSE <<>>

\* The concatenation of a sequence of sequences.
RECURSIVE Flatten(_)
Flatten(ss) == IF ss = <<>> THEN <<>> ELSE Head(ss) \o Flatten(Tail(ss))

(* ------------------------------- codec -------------------------------- *)

\* getpixel with the two colours exchanged.
getpixel_Inverted(bitmap, x, y) == IF <<x, y>> \in bitmap.dark THEN 255 ELSE 0

\* A bitmap is [w, h, dark]: bitmap.size and the pixels whose value is 0.
getpixel(bitmap, x, y) == IF <<x, y>> \in bitmap.dark THEN 0 ELSE 255

\* The inner loop over bit: the byte of the 8-row group at y_byte_group.
RECURSIVE GroupByte(_, _, _, _)
GroupByte(bitmap, x, y_byte_group, bit) ==
    IF bit = 8 THEN 0
    ELSE LET px_y == y_byte_group + bit
         IN  (IF 0 <= px_y /\ px_y < bitmap.h /\ getpixel(bitmap, x, px_y) = 0
              THEN Pow2(bit) ELSE 0)
             + GroupByte(bitmap, x, y_byte_group, bit + 1)

\* The bytes of column x: one per group of range(height - 8, -1, -8).
ColumnBytes(bitmap, x) ==
    LET groups == RangeDown(bitmap.h - 8, -1, -8)
    IN  [g \in 1..Len(groups) |-> GroupByte(bitmap, x, groups[g], 0)]

\* _bitmap_to_packet: the loops append, for x = 0 .. width-1 in turn, the
\* bytes of column x; every column gives the same number of bytes.
bitmap_to_packet(bitmap) ==
    LET n == Len(RangeDown(bitmap.h - 8, -1, -8))
    IN  [b \in 1..(bitmap.w * n) |->
            ColumnBytes(bitmap, (b - 1) \div n)[((b - 1) % n) + 1]]

(* --------------------------- print packets ---------------------------- *)

Zeros(n) == [z \in 1..n |-> 0]

InitPacket == <<16, 255, 64>>

HeaderPacket(canvas_width) ==
    Zeros(15) \o <<16, 255, 241, 2, 29, 118, 48, 0, 12, 0,
                   canvas_width % 256, (canvas_width \div 256) % 256>>

FeedPacket == <<10, 10, 10, 10, 10>>

FinalizePackets(segmented_paper) ==
    IF segmented_paper
    THEN << <<29, 12, 16>>, <<255, 241, 69>>, <<16, 255, 64>>, <<16, 255, 64>> >>
    ELSE << <<16, 255, 241, 69>> >>

\* Packets with the feed sent before the payload.
Packets_FeedBeforePayload(bitmap, segmented_paper) ==
    << InitPacket, HeaderPacket(bitmap.w), FeedPacket, bitmap_to_packet(bitmap) >>
    \o FinalizePackets(segmented_paper)

\* The list `packets` that print() builds.
Packets(bitmap, segmented_paper) ==
    << InitPacket, HeaderPacket(bitmap.w), bitmap_to_packet(bitmap), FeedPacket >>
    \o FinalizePackets(segmented_paper)

\* ChunkAt with a slice one byte too long: data[j:j + 97].
ChunkAt_OffByOne(d, j) == SubSeq(d, j + 1, Min(j + CHUNK + 1, Len(d)))

\* chunk = data[j:j + 96], j counted from 0
ChunkAt(d, j) == SubSeq(d, j + 1, Min(j + CHUNK, Len(d)))

(* ------------------------------- state -------------------------------- *)

VARIABLES
    peripheral,      \* self._peripheral: 0 is None, else the peripheral's number
    characteristic,  \* self._characteristic: 0 is None, else the peripheral it came from
    up,              \* the peripherals whose link is up (the environment)
    leaked,          \* connected peripherals the device no longer refers to
    pc,              \* "idle", or the position inside the running call
    op,              \* the method called last
    result,          \* "running", the value returned, or the exception raised
    cause,           \* the exception a PristarP15LabelerError was raised from
    pre,             \* the handles and the links when the call started
    clean,           \* no call on a peripheral has raised during the call
    faults,          \* the link drops and refused opens injected into the call
    errors,          \* the other library errors injected into the call
    wire,            \* what the call did on the link: writes, pacing sleeps, close
    printFrame,      \* locals of print
    sendFrame,       \* locals of send_data
    connectFrame,    \* locals of connect
    image,           \* the codec's input
    packet,          \* the codec's output
    tape_size_mm,    \* self._tape_size_mm
    tapeCall,        \* the value assigned to tape_size_mm last, and the value before
    devices,         \* DeviceManager._devices: hash -> device instance
    heap,            \* the device instances that are or were in _devices
    mgr,             \* the arguments and the state at the start of the manager's call
    script           \* newprint5_withfeed.py: what its functions returned and wrote

vars == <<peripheral, characteristic, up, leaked, pc, op, result, cause, pre, clean,
          faults, errors, wire,
          printFrame, sendFrame, connectFrame, image, packet,
          tape_size_mm, tapeCall, devices, heap, mgr, script>>

devVars == <<peripheral, characteristic, up, leaked>>
codecVars == <<image, packet>>
mgrVars == <<devices, heap, mgr>>
sideVars == <<tape_size_mm, tapeCall, mgrVars, script>>

DISC == "BTLEDisconnectError"
ERR == "BTLEException"
Exceptions == {DISC, ERR, "AttributeError", "RuntimeError", "PristarP15LabelerError"}

Write(chunk) == [t |-> "write", d |-> chunk]
Pace == [t |-> "pace", d |-> <<>>]
Close == [t |-> "close", d |-> <<>>]

NoPrint == [active |-> FALSE, bitmap |-> [w |-> 0, h |-> 0, dark |-> {}],
            segmented_paper |-> FALSE, packets |-> <<>>, k |-> 0]
\* Besides the locals (data, retries, i, j): the passes that ended with
\* BTLEDisconnectError, the self.connect() calls and the time.sleep(delay)
\* calls of this send_data.
NoSend == [active |-> FALSE, data |-> <<>>, retries |-> 0, i |-> 0, j |-> 0,
           drops |-> 0, reconnects |-> 0, sleeps |-> 0]
\* Besides the locals (retries, i): the Peripheral(address) calls, those that
\* succeeded, and the time.sleep(delay) calls of this connect.
NoConnect == [active |-> FALSE, retries |-> 0, i |-> 0, opens |-> 0, opened |-> 0,
              sleeps |-> 0]

NoImage == [w |-> 0, h |-> 0, dark |-> {}]

\* BluetoothDevice.__init__: no peripheral, no characteristic.
DeviceInit ==
    /\ peripheral = 0
    /\ characteristic = 0
    /\ up = {}
    /\ leaked = 0
    /\ pc = "idle"
    /\ op = "none"
    /\ result = "none"
    /\ cause = "none"
    /\ pre = [peripheral |-> 0, characteristic |-> 0, up |-> {}]
    /\ clean = TRUE
    /\ faults = 0
    /\ errors = 0
    /\ wire = <<>>
    /\ printFrame = NoPrint
    /\ sendFrame = NoSend
    /\ connectFrame = NoConnect

\* DeviceManager.__init__: self._devices = {}.  No scan yet, no call yet.
NoCall == [scans |-> 0, usb |-> {}, lastUsb |-> {}, preDevices |-> <<>>,
           preHeap |-> <<>>, patterns |-> "None", returned |-> <<>>]

\* The script has run nothing yet.
NoScript == [encoded |-> FALSE, packet |-> <<>>, sent |-> FALSE,
             segmented_paper |-> FALSE, wire |-> <<>>, result |-> "none"]

NoTapeCall == [value |-> 0, previous |-> 0]

ManagerInit ==
    /\ devices = <<>>
    /\ heap = <<>>
    /\ mgr = NoCall

Init ==
    /\ DeviceInit
    /\ image = NoImage
    /\ packet = <<>>
    /\ tape_size_mm = DEFAULT_TAPE_SIZE_MM
    /\ tapeCall = NoTapeCall
    /\ ManagerInit
    /\ script = NoScript

(* ---------------------------- environment ----------------------------- *)

\* What a call on peripheral p can do: succeed when the link is up, raise
\* BTLEDisconnectError when it is down or drops now, raise another error.
\* A call on None raises AttributeError.
OutcomesWith(p, f, e) ==
    IF p = 0 THEN {"AttributeError"}
    ELSE (IF p \in up THEN {"ok"} ELSE {DISC})
         \cup (IF f < MaxFaults /\ p \in up THEN {DISC} ELSE {})
         \cup (IF e < MaxErrors THEN {ERR} ELSE {})

Outcomes(p) == OutcomesWith(p, faults, errors)

\* The link and the fault count after a call on p ended with outcome o.
Env(p, o) ==
    /\ up' = IF o = DISC THEN up \ {p} ELSE up
    /\ faults' = IF o = DISC /\ p \in up THEN faults + 1 ELSE faults
    /\ errors' = IF o = ERR THEN errors + 1 ELSE errors
    /\ clean' = (clean /\ o = "ok")

\* The name of the next Peripheral object: not the one the characteristic
\* still refers to.
NewPeriph == IF characteristic = 1 THEN 2 ELSE 1

\* The device stops referring to peripheral old unless `kept`, its other
\* handle, refers to it too: old is then orphaned, and counted if connected.
Orphans(old, kept) == ({old} \cap up) \ {kept}

Links == Cardinality(up) + leaked

\* Peripheral(address): a new connected peripheral, or a failure.
OpenOutcomes ==
    (IF Links < MaxLinks THEN {"ok"} ELSE {})
    \cup (IF faults < MaxFaults \/ Links >= MaxLinks THEN {DISC} ELSE {})
    \cup (IF errors < MaxErrors THEN {ERR} ELSE {})

(* ------------------------- control: the frames ------------------------ *)

Ctl == [pc |-> pc, printFrame |-> printFrame, sendFrame |-> sendFrame,
        connectFrame |-> connectFrame, result |-> result, cause |-> cause]

Set(c) ==
    /\ pc' = c.pc
    /\ printFrame' = c.printFrame
    /\ sendFrame' = c.sendFrame
    /\ connectFrame' = c.connectFrame
    /\ result' = c.result
    /\ cause' = c.cause

\* The state of control when a call starts.
Fresh == [pc |-> "idle", printFrame |-> NoPrint, sendFrame |-> NoSend,
          connectFrame |-> NoConnect, result |-> "running", cause |-> "none"]

\* The call in progress ends: it returns res, or raises res.
Finish(c, res, from) == [c EXCEPT !.pc = "idle", !.result = res, !.cause = from]

\* print: except BTLEDisconnectError / except Exception:
\*     raise PristarP15LabelerError(...) from e
PrintRaises(c, e) == Finish(c, "PristarP15LabelerError", e)

\* An exception leaves send_data: into print's handlers, or to the caller.
SendRaises(c, e) ==
    IF c.printFrame.active THEN PrintRaises(c, e) ELSE Finish(c, e, "none")

\* Entering send_data(data, retries): the is_connected() check comes first.
EnterSend(c, data, retries) ==
    [c EXCEPT !.pc = "s_probe",
              !.sendFrame = [active |-> TRUE, data |-> data, retries |-> retries,
                             i |-> 0, j |-> 0, drops |-> 0, reconnects |-> 0,
                             sleeps |-> 0]]

\* print: for p in packets: self.send_data(p); then return True
PrintLoop(c, k) ==
    IF k <= Len(c.printFrame.packets)
    THEN EnterSend([c EXCEPT !.printFrame.k = k], c.printFrame.packets[k],
                   DefaultRetries)
    ELSE Finish([c EXCEPT !.printFrame.k = k, !.sendFrame = NoSend], "True", "none")

\* send_data returns None: to print's loop, or to the caller.
SendReturns(c) ==
    IF c.printFrame.active THEN PrintLoop(c, c.printFrame.k + 1)
    ELSE Finish(c, "None", "none")

\* StartPass running one pass more: the loop ends for i > retries.
StartPass_OneMore(c, i) ==
    IF i > c.sendFrame.retries THEN SendReturns([c EXCEPT !.sendFrame.i = i])
    ELSE IF Len(c.sendFrame.data) = 0 THEN SendReturns([c EXCEPT !.sendFrame.i = i])
    ELSE [c EXCEPT !.pc = "s_write", !.sendFrame.i = i, !.sendFrame.j = 0]

\* send_data: for i in range(retries) reaches pass i; the inner loop over j
\* is empty for empty data, and the function returns after it.
StartPass(c, i) ==
    IF i >= c.sendFrame.retries THEN SendReturns([c EXCEPT !.sendFrame.i = i])
    ELSE IF Len(c.sendFrame.data) = 0 THEN SendReturns([c EXCEPT !.sendFrame.i = i])
    ELSE [c EXCEPT !.pc = "s_write", !.sendFrame.i = i, !.sendFrame.j = 0]

\* connect returns None: to send_data's handler, which sleeps `delay` and
\* goes on to the next pass, or to the caller.
ConnectReturns(c) ==
    IF c.sendFrame.active
    THEN StartPass([c EXCEPT !.connectFrame = NoConnect,
                             !.sendFrame.sleeps = c.sendFrame.sleeps + 1],
                   c.sendFrame.i + 1)
    ELSE Finish(c, "None", "none")

\* connect raises: out of send_data's handler too, or to the caller.
ConnectRaises(c, e) ==
    IF c.sendFrame.active THEN SendRaises(c, e) ELSE Finish(c, e, "none")

\* Entering connect(retries): for i in range(retries).
EnterConnect(c, retries) ==
    LET d == [c EXCEPT !.connectFrame = [active |-> TRUE, retries |-> retries,
                                         i |-> 0, opens |-> 0, opened |-> 0,
                                         sleeps |-> 0]]
    IN  IF retries > 0 THEN [d EXCEPT !.pc = "c_open"] ELSE ConnectReturns(d)

\* connect's handlers for an exception e of attempt i.
ConnectExcept(c, e) ==
    LET f == c.connectFrame IN
    IF e = DISC
    THEN IF f.i < f.retries - 1
         THEN [c EXCEPT !.pc = "c_open", !.connectFrame.i = f.i + 1,
                        !.connectFrame.sleeps = f.sleeps + 1]
         ELSE ConnectRaises(c, e)
    ELSE LET d == [c EXCEPT !.connectFrame.i = f.i + 1,
                            !.connectFrame.sleeps = f.sleeps + 1]
         IN  IF f.i + 1 < f.retries THEN [d EXCEPT !.pc = "c_open"]
             ELSE ConnectReturns(d)

\* SendExcept reconnecting after the last pass too (i < retries for
\* i < retries - 1).
SendExcept_ReconnectsAfterLastPass(c, e) ==
    LET f == c.sendFrame IN
    IF e = DISC
    THEN IF f.i < f.retries
         THEN EnterConnect([c EXCEPT !.sendFrame.drops = f.drops + 1,
                                     !.sendFrame.reconnects = f.reconnects + 1],
                           DefaultRetries)
         ELSE SendRaises([c EXCEPT !.sendFrame.drops = f.drops + 1], e)
    ELSE StartPass([c EXCEPT !.sendFrame.sleeps = f.sleeps + 1], f.i + 1)

\* send_data's handlers for an exception e of pass i.
SendExcept(c, e) ==
    LET f == c.sendFrame IN
    IF e = DISC
    THEN IF f.i < f.retries - 1
         THEN EnterConnect([c EXCEPT !.sendFrame.drops = f.drops + 1,
                                     !.sendFrame.reconnects = f.reconnects + 1],
                           DefaultRetries)
         ELSE SendRaises([c EXCEPT !.sendFrame.drops = f.drops + 1], e)
    ELSE StartPass([c EXCEPT !.sendFrame.sleeps = f.sleeps + 1], f.i + 1)

(* ------------------------------- inputs ------------------------------- *)

RetryArgs == (0..MaxRetries) \cup {DefaultRetries}

\* The bytes 1, 2, ..., n (mod 256): every chunk of it differs from the others.
MkData(n) == [x \in 1..n |-> x % 256]

DataArgs == {MkData(n) : n \in {0, CHUNK, 2 * CHUNK + 1}}

\* The print jobs: a one-column raster on plain and on segmented paper, a
\* raster whose payload takes two chunks, and a raster wider than 255
\* columns.
PrintJobs ==
    { <<[w |-> 1, h |-> 8, dark |-> {<<0, 0>>}], FALSE>>,
      <<[w |-> 1, h |-> 8, dark |-> {<<0, 0>>}], TRUE>>,
      <<[w |-> 97, h |-> 8, dark |-> {<<0, 1>>, <<95, 7>>, <<96, 0>>}], FALSE>>,
      <<[w |-> 258, h |-> 4, dark |-> {<<0, 0>>}], TRUE>> }

(* ------------------------------ the calls ----------------------------- *)

\* A method is called on the idle device: the record of the last call is
\* replaced by this call's.
Begin(name) ==
    /\ pc = "idle"
    /\ op' = name
    /\ pre' = [peripheral |-> peripheral, characteristic |-> characteristic, up |-> up]

\* connect(retries, delay)
CallConnect(retries) ==
    /\ Begin("connect")
    /\ Set(EnterConnect(Fresh, retries))
    /\ clean' = TRUE
    /\ faults' = 0
    /\ errors' = 0
    /\ wire' = <<>>
    /\ UNCHANGED <<devVars, codecVars, sideVars>>

\* send_data(data, retries, delay)
CallSendData(data, retries) ==
    /\ Begin("send_data")
    /\ Set(EnterSend(Fresh, data, retries))
    /\ clean' = TRUE
    /\ faults' = 0
    /\ errors' = 0
    /\ wire' = <<>>
    /\ UNCHANGED <<devVars, codecVars, sideVars>>

\* print(bitmap, segmented_paper): the payload is encoded, then the try
\* block starts with getCharacteristics.
CallPrint(bitmap, segmented_paper) ==
    /\ Begin("print")
    /\ Set([Fresh EXCEPT !.pc = "p_char",
                         !.printFrame = [active |-> TRUE, bitmap |-> bitmap,
                                         segmented_paper |-> segmented_paper,
                                         packets |-> <<>>, k |-> 0]])
    /\ clean' = TRUE
    /\ faults' = 0
    /\ errors' = 0
    /\ wire' = <<>>
    /\ UNCHANGED <<devVars, codecVars, sideVars>>

\* print: char = self._peripheral.getCharacteristics(uuid=CHAR_UUID)[0],
\* then the packets are built and the loop over them starts.
PrintChar ==
    /\ pc = "p_char"
    /\ \E o \in Outcomes(peripheral) :
        /\ Env(peripheral, o)
        /\ IF o = "ok"
           THEN Set(PrintLoop([Ctl EXCEPT !.printFrame.packets =
                                   Packets(printFrame.bitmap,
                                           printFrame.segmented_paper)], 1))
           ELSE Set(PrintRaises(Ctl, o))
    /\ UNCHANGED <<peripheral, characteristic, leaked, op, pre, wire, codecVars, sideVars>>

\* is_connected(): True when getServices() succeeds, False on
\* BTLEDisconnectError; any other exception leaves it.
IsConnected(o) == IF o = "ok" THEN "True" ELSE IF o = DISC THEN "False" ELSE o

\* send_data: if not self.is_connected(): raise RuntimeError(...)
SendProbe ==
    /\ pc = "s_probe"
    /\ \E o \in Outcomes(peripheral) :
        /\ Env(peripheral, o)
        /\ LET r == IsConnected(o) IN
           IF r = "True" THEN Set(StartPass(Ctl, 0))
           ELSE IF r = "False" THEN Set(SendRaises(Ctl, "RuntimeError"))
           ELSE Set(SendRaises(Ctl, r))
    /\ UNCHANGED <<peripheral, characteristic, leaked, op, pre, wire, codecVars, sideVars>>

\* send_data: self._characteristic.write(chunk, withResponse=False) and
\* time.sleep(0.03) for the chunk at j.
SendWrite ==
    /\ pc = "s_write"
    /\ \E o \in Outcomes(characteristic) :
        /\ Env(characteristic, o)
        /\ IF o = "ok"
           THEN /\ wire' = wire \o <<Write(ChunkAt(sendFrame.data, sendFrame.j)), Pace>>
                /\ IF sendFrame.j + CHUNK < Len(sendFrame.data)
                   THEN Set([Ctl EXCEPT !.sendFrame.j = sendFrame.j + CHUNK])
                   ELSE Set(SendReturns(Ctl))
           ELSE /\ wire' = wire
                /\ Set(SendExcept(Ctl, o))
    /\ UNCHANGED <<peripheral, characteristic, leaked, op, pre, codecVars, sideVars>>

\* connect: self._peripheral = Peripheral(self._address)
ConnectOpen ==
    /\ pc = "c_open"
    /\ \E o \in OpenOutcomes :
        LET c == [Ctl EXCEPT !.connectFrame.opens = connectFrame.opens + 1] IN
        IF o = "ok"
        THEN /\ peripheral' = NewPeriph
             /\ up' = (up \ Orphans(peripheral, characteristic)) \cup {NewPeriph}
             /\ leaked' = leaked + Cardinality(Orphans(peripheral, characteristic))
             /\ UNCHANGED <<faults, errors, clean>>
             /\ Set([c EXCEPT !.pc = "c_mtu",
                              !.connectFrame.opened = connectFrame.opened + 1])
        ELSE /\ peripheral' = peripheral
             /\ up' = up
             /\ leaked' = leaked
             /\ faults' = IF o = DISC /\ Links < MaxLinks THEN faults + 1 ELSE faults
             /\ errors' = IF o = ERR THEN errors + 1 ELSE errors
             /\ clean' = FALSE
             /\ Set(ConnectExcept(c, o))
    /\ UNCHANGED <<characteristic, op, pre, wire, codecVars, sideVars>>

\* connect: self._peripheral.setMTU(100)
ConnectMtu ==
    /\ pc = "c_mtu"
    /\ \E o \in Outcomes(peripheral) :
        /\ Env(peripheral, o)
        /\ IF o = "ok" THEN Set([Ctl EXCEPT !.pc = "c_char"])
           ELSE Set(ConnectExcept(Ctl, o))
    /\ UNCHANGED <<peripheral, characteristic, leaked, op, pre, wire, codecVars, sideVars>>

\* connect: self._characteristic = self._peripheral.getCharacteristics(...)[0]
\* and return
ConnectChar ==
    /\ pc = "c_char"
    /\ \E o \in Outcomes(peripheral) :
        IF o = "ok"
        THEN /\ characteristic' = peripheral
             /\ up' = up \ Orphans(characteristic, peripheral)
             /\ leaked' = leaked + Cardinality(Orphans(characteristic, peripheral))
             /\ UNCHANGED <<faults, errors, clean>>
             /\ Set(ConnectReturns(Ctl))
        ELSE /\ characteristic' = characteristic
             /\ leaked' = leaked
             /\ Env(peripheral, o)
             /\ Set(ConnectExcept(Ctl, o))
    /\ UNCHANGED <<peripheral, op, pre, wire, codecVars, sideVars>>

\* Finally clearing a handle only when the close succeeded.
Finally_OnSuccessOnly(o, handle) == IF o = "ok" THEN 0 ELSE handle

\* disconnect: finally: self._peripheral = None; self._characteristic = None,
\* whatever the outcome o of the close.
Finally(o, handle) == 0

\* disconnect(): nothing without a peripheral; else the peripheral is
\* closed, an exception of the close is logged, and both handles are cleared.
CallDisconnect ==
    /\ Begin("disconnect")
    /\ IF peripheral = 0
       THEN /\ UNCHANGED devVars
            /\ clean' = TRUE
            /\ faults' = 0
            /\ errors' = 0
            /\ Set(Finish(Fresh, "None", "none"))
            /\ wire' = <<>>
       ELSE \E o \in {"ok", DISC, ERR}, closed \in BOOLEAN :
            /\ o = "ok" => closed
            /\ up' = {}
            /\ leaked' = leaked
                          + Cardinality(IF closed THEN up \ {peripheral} ELSE up)
            /\ faults' = IF o = DISC THEN 1 ELSE 0
            /\ errors' = IF o = ERR THEN 1 ELSE 0
            /\ clean' = (o = "ok")
            /\ peripheral' = Finally(o, peripheral)
            /\ characteristic' = Finally(o, characteristic)
            /\ wire' = <<Close>>
            /\ Set(Finish(Fresh, "None", "none"))
    /\ UNCHANGED <<codecVars, sideVars>>

\* is_ready: return self.is_connected()
CallIsReady ==
    /\ Begin("is_ready")
    /\ \E o \in OutcomesWith(peripheral, 0, 0) :
        /\ up' = IF o = DISC THEN up \ {peripheral} ELSE up
        /\ faults' = IF o = DISC /\ peripheral \in up THEN 1 ELSE 0
        /\ errors' = IF o = ERR THEN 1 ELSE 0
        /\ clean' = (o = "ok")
        /\ Set(Finish(Fresh, IsConnected(o), "none"))
    /\ wire' = <<>>
    /\ UNCHANGED <<peripheral, characteristic, leaked, codecVars, sideVars>>

\* The environment: the link of a connected peripheral is lost while no
\* call runs.
LinkDrop ==
    /\ pc = "idle"
    /\ \/ \E p \in up : up' = up \ {p} /\ leaked' = leaked
       \/ leaked > 0 /\ leaked' = leaked - 1 /\ up' = up
    /\ op' = "none"
    /\ pre' = [peripheral |-> peripheral, characteristic |-> characteristic, up |-> up]
    /\ clean' = TRUE
    /\ faults' = 0
    /\ errors' = 0
    /\ wire' = <<>>
    /\ Set(Finish(Fresh, "none", "none"))
    /\ UNCHANGED <<peripheral, characteristic, codecVars, sideVars>>

Next ==
    \/ \E r \in RetryArgs : CallConnect(r)
    \/ \E d \in DataArgs, r \in RetryArgs : CallSendData(d, r)
    \/ \E job \in PrintJobs : CallPrint(job[1], job[2])
    \/ CallDisconnect
    \/ CallIsReady
    \/ PrintChar
    \/ SendProbe
    \/ SendWrite
    \/ ConnectOpen
    \/ ConnectMtu
    \/ ConnectChar
    \/ LinkDrop

Spec == Init /\ [][Next]_vars

\* The statements inside a running call.
Step ==
    \/ PrintChar
    \/ SendProbe
    \/ SendWrite
    \/ ConnectOpen
    \/ ConnectMtu
    \/ ConnectChar

\* The methods are sequential code and the calls on the peripheral return
\* or raise: a call that has started keeps executing its next statement.
SpecLive == Spec /\ WF_vars(Step)

(* ------------------------- the codec on its own ----------------------- *)

\* Every raster of at most MaxWidth x MaxHeight with at most two dark pixels.
Pixels(w, h) == (0..(w - 1)) \X (0..(h - 1))

Images ==
    UNION { { [w |-> w, h |-> h, dark |-> {p, q}] : p, q \in Pixels(w, h) }
            \cup { [w |-> w, h |-> h, dark |-> {}] } :
            w \in 1..MaxWidth, h \in 1..MaxHeight }

InitCodec ==
    /\ DeviceInit
    /\ image \in Images
    /\ packet = <<>>
    /\ tape_size_mm = DEFAULT_TAPE_SIZE_MM
    /\ tapeCall = NoTapeCall
    /\ ManagerInit
    /\ script = NoScript

\* packet = self._bitmap_to_packet(image)
Encode ==
    /\ op = "none"
    /\ packet' = bitmap_to_packet(image)
    /\ op' = "encode"
    /\ UNCHANGED <<devVars, pc, result, cause, pre, clean, faults, errors, wire,
                   printFrame,
                   sendFrame, connectFrame, image, sideVars>>

NextCodec == Encode

SpecCodec == InitCodec /\ [][NextCodec]_vars

(* --------------------------- device manager --------------------------- *)

\* A str is the sequence of its code points.
\* lower leaving every letter as it is.
lower_Identity(s) == s

\* str.lower(), for ASCII letters
lower(s) == [n \in 1..Len(s) |-> IF s[n] \in 65..90 THEN s[n] + 32 ELSE s[n]]

\* sub in s
Contains(sub, s) ==
    \E i \in 0..(Len(s) - Len(sub)) : SubSeq(s, i + 1, i + Len(sub)) = sub

\* a < b on str: by code point, a proper prefix first
RECURSIVE StrLess(_, _)
StrLess(a, b) ==
    IF b = <<>> THEN FALSE
    ELSE IF a = <<>> THEN TRUE
    ELSE IF Head(a) # Head(b) THEN Head(a) < Head(b)
    ELSE StrLess(Tail(a), Tail(b))

\* "03:0D:7A:D6:5E:B1"
PristarAddress == <<48, 51, 58, 48, 68, 58, 55, 65, 58, 68, 54, 58, 53, 69, 58, 66, 49>>
\* "Pristar P15"
PristarName == <<80, 114, 105, 115, 116, 97, 114, 32, 80, 49, 53>>

\* The USB devices there are to find: "Other" with hash "01", "Label P15"
\* with hash "A1", and "NoId", whose hash is empty.
UsbOther == [hash |-> <<48, 49>>, name |-> <<79, 116, 104, 101, 114>>]
UsbLabel == [hash |-> <<65, 49>>, name |-> <<76, 97, 98, 101, 108, 32, 80, 49, 53>>]
UsbNoId == [hash |-> <<>>, name |-> <<78, 111, 73, 100>>]
UsbUniverse == {UsbOther, UsbLabel, UsbNoId}

\* POSSIBLE_USB_ERRORS without NoBackendError.
POSSIBLE_USB_ERRORS_OnlyUSBError == {"USBError"}

\* POSSIBLE_USB_ERRORS = (NoBackendError, USBError)
POSSIBLE_USB_ERRORS == {"NoBackendError", "USBError"}

\* What UsbDevice.supported_devices() can do: return devices, raise one of
\* the USB errors, raise something else.
UsbOutcomes ==
    { [raises |-> "none", found |-> f] : f \in SUBSET UsbUniverse }
    \cup { [raises |-> e, found |-> {}] : e \in {"NoBackendError", "USBError", "OSError"} }

\* The arguments of matching_devices and find_and_select_device: None, [],
\* ["p15"], ["zzz"], ["o", "R"]
PatternArgs ==
    { [none |-> TRUE, list |-> <<>>],
      [none |-> FALSE, list |-> <<>>],
      [none |-> FALSE, list |-> << <<112, 49, 53>> >>],
      [none |-> FALSE, list |-> << <<122, 122, 122>> >>],
      [none |-> FALSE, list |-> << <<111>>, <<82>> >>] }

\* LabelerDevice.is_match of a device called `name`
is_match(name, patterns) ==
    IF patterns.none THEN TRUE
    ELSE \A n \in 1..Len(patterns.list) :
            Contains(lower(patterns.list[n]), lower(name))

\* A device instance is named <<g, h>>: the one constructed for hash h by
\* the g-th scan.
\* cur at line 45: the USB devices found that have a hash, unless the
\* enumeration raised, and the Pristar P15.
Cur(usb, g) ==
    LET fromUsb == IF usb.raises = "none"
                   THEN {d \in usb.found : d.hash # <<>>}
                   ELSE {}
    IN  [h \in {d.hash : d \in fromUsb} \cup {PristarAddress} |-> <<g, h>>]

\* The instance constructed for hash h: not connected.  BluetoothDevice.name
\* is self._name or self._address.
Instance(usb, h) ==
    IF h = PristarAddress
    THEN [hash |-> h,
          name |-> IF PristarName # <<>> THEN PristarName ELSE PristarAddress,
          peripheral |-> 0, characteristic |-> 0]
    ELSE [hash |-> h,
          name |-> (CHOOSE d \in usb.found : d.hash = h).name,
          peripheral |-> 0, characteristic |-> 0]

\* Merge keeping the instance of `cur` for every hash.
Merge_Replaced(prev, cur) == cur

\* for dev_hash in prev_set - cur_set: self._devices.pop(dev_hash)
\* for dev_hash in cur_set - prev_set: self._devices[dev_hash] = cur[dev_hash]
Merge(prev, cur) ==
    [h \in DOMAIN cur |-> IF h \in DOMAIN prev THEN prev[h] ELSE cur[h]]

\* Changed comparing the sizes of the key sets.
Changed_BySize(prev_set, cur_set) == Cardinality(prev_set) # Cardinality(cur_set)

\* changed = prev_set != cur_set
Changed(prev_set, cur_set) == prev_set # cur_set

\* HeapAfterScan with the devices dropped from the set disconnected.
HeapAfterScan_DisconnectsDropped(hp, prev, cur, usb) ==
    [id \in DOMAIN hp |->
        IF \E h \in DOMAIN prev \ DOMAIN cur : prev[h] = id
        THEN [hp[id] EXCEPT !.peripheral = 0, !.characteristic = 0]
        ELSE hp[id]]
    @@ [id \in {cur[h] : h \in DOMAIN cur \ DOMAIN prev} |-> Instance(usb, id[2])]

\* The instances after lines 52-55: those added to the set are new, a popped
\* one is left as it is.
HeapAfterScan(hp, prev, cur, usb) ==
    hp @@ [id \in {cur[h] : h \in DOMAIN cur \ DOMAIN prev} |-> Instance(usb, id[2])]

\* sorted(..., key=lambda dev: dev.hash), as the list of the hashes
RECURSIVE SortedByHash(_)
SortedByHash(hs) ==
    IF hs = {} THEN <<>>
    ELSE LET m == CHOOSE h \in hs : \A g \in hs : g = h \/ StrLess(h, g)
         IN  <<m>> \o SortedByHash(hs \ {m})

\* matching_devices(patterns)
matching_devices(patterns) ==
    LET hs == SortedByHash({h \in DOMAIN devices : is_match(heap[devices[h]].name, patterns)})
    IN  [n \in 1..Len(hs) |-> devices[hs[n]]]

\* A call of the manager starts.
ManagerCall(name) ==
    /\ pc = "idle"
    /\ op' = name
    /\ UNCHANGED <<devVars, pc, cause, pre, clean, faults, errors, wire,
                   printFrame, sendFrame, connectFrame, codecVars, tape_size_mm,
                   tapeCall, script>>

\* DeviceManager.scan(), with `usb` what UsbDevice.supported_devices() does
Scan(usb) ==
    /\ ManagerCall("scan")
    /\ mgr.scans < MaxScans
    /\ LET g == mgr.scans + 1
           prev == devices
           cur == Cur(usb, g)
       IN  /\ mgr' = [mgr EXCEPT !.scans = g, !.usb = usb, !.lastUsb = mgr.usb,
                                  !.preDevices = devices, !.preHeap = heap,
                                  !.returned = <<>>]
           /\ IF usb.raises # "none" /\ usb.raises \notin POSSIBLE_USB_ERRORS
              THEN /\ result' = usb.raises
                   /\ UNCHANGED <<devices, heap>>
              ELSE IF Cardinality(DOMAIN cur) = 0
              THEN /\ devices' = <<>>
                   /\ result' = "DeviceManagerNoDevices"
                   /\ UNCHANGED heap
              ELSE /\ devices' = Merge(prev, cur)
                   /\ heap' = HeapAfterScan(heap, prev, cur, usb)
                   /\ result' = IF Changed(DOMAIN prev, DOMAIN cur) THEN "True" ELSE "False"

\* A call that reads the device set.
ManagerRead(name, patterns, returned, res) ==
    /\ ManagerCall(name)
    /\ mgr' = [mgr EXCEPT !.preDevices = devices, !.preHeap = heap,
                           !.patterns = patterns, !.returned = returned]
    /\ result' = res
    /\ UNCHANGED <<devices, heap>>

\* DeviceManager.devices
Devices ==
    ManagerRead("devices", [none |-> TRUE, list |-> <<>>],
                matching_devices([none |-> TRUE, list |-> <<>>]), "list")

\* DeviceManager.matching_devices(patterns)
MatchingDevices(patterns) ==
    ManagerRead("matching_devices", patterns, matching_devices(patterns), "list")

\* DeviceManager.find_and_select_device(patterns): the first of the
\* matching devices, DeviceManagerError without one.
FindAndSelectDevice(patterns) ==
    LET ds == matching_devices(patterns)
    IN  IF Len(ds) = 0
        THEN ManagerRead("find_and_select_device", patterns, <<>>, "DeviceManagerError")
        ELSE ManagerRead("find_and_select_device", patterns, <<ds[1]>>, "device")

\* The caller, holding an instance it got from the manager, connects it:
\* connect() returns with both handles set.
DeviceConnect(id) ==
    /\ ManagerCall("device.connect")
    /\ heap[id].peripheral = 0
    /\ heap' = [heap EXCEPT ![id].peripheral = 1, ![id].characteristic = 1]
    /\ mgr' = [mgr EXCEPT !.preDevices = devices, !.preHeap = heap, !.returned = <<>>]
    /\ result' = "None"
    /\ UNCHANGED devices

\* The caller disconnects an instance: disconnect() clears both handles.
DeviceDisconnect(id) ==
    /\ ManagerCall("device.disconnect")
    /\ heap[id].peripheral # 0
    /\ heap' = [heap EXCEPT ![id].peripheral = 0, ![id].characteristic = 0]
    /\ mgr' = [mgr EXCEPT !.preDevices = devices, !.preHeap = heap, !.returned = <<>>]
    /\ result' = "None"
    /\ UNCHANGED devices

NextManager ==
    \/ \E usb \in UsbOutcomes : Scan(usb)
    \/ Devices
    \/ \E patterns \in PatternArgs : MatchingDevices(patterns)
    \/ \E patterns \in PatternArgs : FindAndSelectDevice(patterns)
    \/ \E id \in DOMAIN heap : DeviceConnect(id)
    \/ \E id \in DOMAIN heap : DeviceDisconnect(id)

SpecManager == Init /\ [][NextManager]_vars

(* ----------------------------- tape size ------------------------------ *)

\* SUPPORTED_TAPE_SIZES_MM with 6 and 9 added.
SUPPORTED_TAPE_SIZES_MM_All == {6, 9, 12}

\* SUPPORTED_TAPE_SIZES_MM = (12,)
SUPPORTED_TAPE_SIZES_MM == {12}

\* The values assigned to tape_size_mm.
TapeArgs == {6, 9, 12}

\* self._tape_size_mm = tape_size_mm or self.DEFAULT_TAPE_SIZE_MM, for the
\* constructor's tape_size_mm None (0 here) or one of TapeArgs
ConstructedTapes ==
    {IF t = 0 THEN DEFAULT_TAPE_SIZE_MM ELSE t : t \in {0} \cup TapeArgs}

\* device.tape_size_mm = value
SetTapeSize(value) ==
    /\ Begin("tape_size_mm")
    /\ tapeCall' = [value |-> value, previous |-> tape_size_mm]
    /\ IF value \notin SUPPORTED_TAPE_SIZES_MM
       THEN /\ Set(Finish(Fresh, "ValueError", "none"))
            /\ UNCHANGED tape_size_mm
       ELSE /\ Set(Finish(Fresh, "None", "none"))
            /\ tape_size_mm' = value
    /\ clean' = TRUE
    /\ faults' = 0
    /\ errors' = 0
    /\ wire' = <<>>
    /\ UNCHANGED <<devVars, codecVars, mgrVars, script>>

InitTape ==
    /\ DeviceInit
    /\ image = NoImage
    /\ packet = <<>>
    /\ tape_size_mm \in ConstructedTapes
    /\ tapeCall = NoTapeCall
    /\ ManagerInit
    /\ script = NoScript

NextTape ==
    \/ \E value \in TapeArgs : SetTapeSize(value)
    \/ \E retries \in 1..MaxRetries : CallConnect(retries)
    \/ ConnectOpen
    \/ ConnectMtu
    \/ ConnectChar
    \/ CallDisconnect
    \/ LinkDrop

SpecTape == InitTape /\ [][NextTape]_vars

(* ------------------- the script newprint5_withfeed.py ----------------- *)

\* byte |= (1 << bit)
script_or(byte, bit) ==
    IF (byte \div Pow2(bit)) % 2 = 1 THEN byte ELSE byte + Pow2(bit)

\* bitmap_to_packet: for bit in range(8), from `bit` on, with the byte so far.
RECURSIVE script_bits(_, _, _, _, _)
script_bits(bitmap, x, y_byte_group, bit, byte) ==
    IF bit >= 8 THEN byte
    ELSE LET px_y == y_byte_group + bit
         IN  script_bits(bitmap, x, y_byte_group, bit + 1,
                         IF 0 <= px_y /\ px_y < bitmap.h
                            /\ getpixel(bitmap, x, px_y) = 0
                         THEN script_or(byte, bit) ELSE byte)

\* bitmap_to_packet: for y_byte_group in range(height - 8, -1, -8), from
\* y_byte_group on, appending to bytes_.
RECURSIVE script_groups(_, _, _, _)
script_groups(bitmap, x, y_byte_group, bytes_) ==
    IF y_byte_group > -1
    THEN script_groups(bitmap, x, y_byte_group - 8,
                       Append(bytes_, script_bits(bitmap, x, y_byte_group, 0, 0)))
    ELSE bytes_

\* bitmap_to_packet: for x in range(lo, hi): the bytes the columns lo ..
\* hi - 1 append, one column after the other (the range is halved to keep
\* the evaluation shallow).
RECURSIVE script_columns(_, _, _)
script_columns(bitmap, lo, hi) ==
    IF lo >= hi THEN <<>>
    ELSE IF hi = lo + 1 THEN script_groups(bitmap, lo, bitmap.h - 8, <<>>)
    ELSE LET mid == (lo + hi) \div 2
         IN  script_columns(bitmap, lo, mid) \o script_columns(bitmap, mid, hi)

\* bitmap_to_packet(bitmap) of the script
script_bitmap_to_packet(bitmap) == script_columns(bitmap, 0, bitmap.w)

\* script_packets without the line feeds.
script_packets_NoFeed(bitmap, segmented_paper) ==
    LET payload == script_bitmap_to_packet(bitmap)
        canvas_width == bitmap.w
        packets == << <<16, 255, 64>>,
                      Zeros(15) \o <<16, 255, 241, 2, 29, 118, 48, 0, 12, 0,
                                     canvas_width % 256,
                                     (canvas_width \div 256) % 256>>,
                      payload >>
    IN  IF segmented_paper
        THEN packets \o << <<29, 12, 16>>, <<255, 241, 69>>,
                           <<16, 255, 64>>, <<16, 255, 64>> >>
        ELSE packets \o << <<16, 255, 241, 69>> >>

\* send_print_job: the list `packets`: init, header, payload, then the feed
\* appended, then the finalize commands appended.
script_packets(bitmap, segmented_paper) ==
    LET payload == script_bitmap_to_packet(bitmap)
        canvas_width == bitmap.w
        packets == << <<16, 255, 64>>,
                      Zeros(15) \o <<16, 255, 241, 2, 29, 118, 48, 0, 12, 0,
                                     canvas_width % 256,
                                     (canvas_width \div 256) % 256>>,
                      payload >>
        fed == Append(packets, <<10, 10, 10, 10, 10>>)
    IN  IF segmented_paper
        THEN fed \o << <<29, 12, 16>>, <<255, 241, 69>>,
                       <<16, 255, 64>>, <<16, 255, 64>> >>
        ELSE fed \o << <<16, 255, 241, 69>> >>

\* list(range(start, stop, step)) for a positive step
RECURSIVE RangeUp(_, _, _)
RangeUp(start, stop, step) ==
    IF start < stop THEN <<start>> \o RangeUp(start + step, stop, step)
    ELSE <<>>

\* chunks = [p[i:i + 96] for i in range(0, len(p), 96)]
script_chunks(p) ==
    LET starts == RangeUp(0, Len(p), 96)
    IN  [n \in 1..Len(starts) |->
            SubSeq(p, starts[n] + 1, Min(starts[n] + 96, Len(p)))]

\* send_print_job: the chunks of all packets in the order of the two loops.
script_all_chunks(packets) ==
    Flatten([k \in 1..Len(packets) |-> script_chunks(packets[k])])

\* send_print_job: char.write(chunk, withResponse=False); time.sleep(0.03)
\* for the first n chunks.
script_written(chunks, n) ==
    Flatten([m \in 1..n |-> <<Write(chunks[m]), Pace>>])

\* The rasters given to both programs: those of the print jobs and rasters
\* whose height is below, at, and above a multiple of 8.
ScriptImages ==
    { job[1] : job \in PrintJobs }
    \cup { [w |-> 1, h |-> 7, dark |-> {<<0, 0>>}],
           [w |-> 1, h |-> 9, dark |-> {<<0, 0>>, <<0, 8>>}],
           [w |-> 2, h |-> 16, dark |-> {<<1, 7>>, <<1, 8>>}],
           [w |-> 2, h |-> 17, dark |-> {<<0, 0>>, <<1, 16>>}] }

InitScript ==
    /\ DeviceInit
    /\ image \in ScriptImages
    /\ packet = <<>>
    /\ tape_size_mm = DEFAULT_TAPE_SIZE_MM
    /\ tapeCall = NoTapeCall
    /\ ManagerInit
    /\ script = NoScript

scriptFrame == <<devVars, pc, op, result, cause, pre, clean, faults, errors, wire,
                 printFrame, sendFrame, connectFrame, codecVars,
                 tape_size_mm, tapeCall, mgrVars>>

\* payload = bitmap_to_packet(bitmap) of the script
ScriptEncode ==
    /\ ~script.encoded
    /\ script' = [script EXCEPT !.encoded = TRUE,
                                !.packet = script_bitmap_to_packet(image)]
    /\ UNCHANGED scriptFrame

\* send_print_job(peripheral, bitmap, segmented_paper) on the script's own
\* peripheral: getCharacteristics, then the writes. failAt = 0: no call on
\* the link raises, the job returns True. failAt = n: the n-th call on the
\* link raises, the except clause returns False.
SendPrintJob(segmented_paper, failAt) ==
    LET chunks == script_all_chunks(script_packets(image, segmented_paper)) IN
    /\ ~script.sent
    /\ failAt <= 1 + Len(chunks)
    /\ script' = [script EXCEPT
                    !.sent = TRUE,
                    !.segmented_paper = segmented_paper,
                    !.wire = IF failAt = 0 THEN script_written(chunks, Len(chunks))
                             ELSE IF failAt = 1 THEN <<>>
                             ELSE script_written(chunks, failAt - 2),
                    !.result = IF failAt = 0 THEN "True" ELSE "False"]
    /\ UNCHANGED scriptFrame

\* The most calls on the link a job of the script makes.
MaxScriptCalls == 12

\* The library and the script are given the same raster; the library's
\* link never fails.
NextScript ==
    \/ Encode
    \/ ScriptEncode
    \/ \E segmented_paper \in BOOLEAN, failAt \in 0..MaxScriptCalls :
          SendPrintJob(segmented_paper, failAt)
    \/ peripheral = 0 /\ CallConnect(DefaultRetries)
    \/ ConnectOpen /\ clean'
    \/ ConnectMtu /\ clean'
    \/ ConnectChar /\ clean'
    \/ \E segmented_paper \in BOOLEAN :
          peripheral # 0 /\ CallPrint(image, segmented_paper)
    \/ PrintChar /\ clean'
    \/ SendProbe /\ clean'
    \/ SendWrite /\ clean'

SpecScript == InitScript /\ [][NextScript]_vars

(* ----------------------------- properties ---------------------------- *)

\* is_ready / is_connected() can return True: there is a peripheral and its
\* link is up.
Ready == peripheral # 0 /\ peripheral \in up

\* The device was Ready when the call started.
PreReady == pre.peripheral # 0 /\ pre.peripheral \in pre.up

\* The call of method `name` has ended.
Done(name) == op = name /\ pc = "idle"

\* The bytes written on the link, in order.
WrittenBytes(w) == Flatten([n \in 1..Len(w) |-> w[n].d])

C2_ConnectExhaustsAndRaises ==
    (Done("connect") /\ connectFrame.retries >= 1 /\ connectFrame.opened = 0) =>
        /\ connectFrame.opens = connectFrame.retries
        /\ connectFrame.sleeps = connectFrame.retries - 1
        /\ result \in {DISC, ERR}
        /\ ~Ready

\* C3: when connect(retries), retries >= 1, has returned without raising, one
\* of its attempts opened a peripheral, the device is Ready, and the
\* characteristic is the one of the peripheral held.
C3_ReturnMeansReady ==
    (Done("connect") /\ connectFrame.retries >= 1 /\ result = "None") =>
        /\ connectFrame.opened >= 1
        /\ Ready
        /\ characteristic = peripheral

\* The packets of a print job as the protocol states them.
C4_Expected(bitmap, segmented_paper) ==
    << <<16, 255, 64>>,
       <<0, 0, 0, 0, 0, 0, 0, 0, 0, 0, 0, 0, 0, 0, 0,
         16, 255, 241, 2, 29, 118, 48, 0, 12, 0,
         bitmap.w % 256, (bitmap.w \div 256) % 256>>,
       bitmap_to_packet(bitmap),
       <<10, 10, 10, 10, 10>> >>
    \o (IF segmented_paper
        THEN << <<29, 12, 16>>, <<255, 241, 69>>, <<16, 255, 64>>, <<16, 255, 64>> >>
        ELSE << <<16, 255, 241, 69>> >>)

\* C4: during a print() in which no call on the peripheral has failed, the
\* bytes written so far are the packets init, header, payload, feed,
\* finalize in this order, up to the position reached in the packet being
\* sent; and the print ends returning True with all of them written.
C4_PacketOrder ==
    (op = "print" /\ clean) =>
        LET exp == C4_Expected(printFrame.bitmap, printFrame.segmented_paper)
            k == printFrame.k
        IN  /\ k = 0 => wire = <<>> /\ pc = "p_char"
            /\ (k >= 1 /\ pc # "idle") =>
                  /\ k <= Len(exp)
                  /\ WrittenBytes(wire) =
                        Flatten(SubSeq(exp, 1, k - 1))
                        \o SubSeq(exp[k], 1, IF pc = "s_write" THEN sendFrame.j ELSE 0)
            /\ pc = "idle" =>
                  /\ result = "True"
                  /\ k = Len(exp) + 1
                  /\ WrittenBytes(wire) = Flatten(exp)

\* C4: a print of a raster wider than 255 columns on segmented paper has
\* returned True without any failure.
C4_Witness ==
    /\ Done("print")
    /\ clean
    /\ result = "True"
    /\ printFrame.segmented_paper
    /\ printFrame.bitmap.w > 255

\* What send_data(d) is to do on the link: the chunks d[0:96], d[96:192], ...
\* each followed by one pacing sleep.
C5_Chunks(d) ==
    [n \in 1..(2 * ((Len(d) + 95) \div 96)) |->
        IF n % 2 = 1
        THEN [t |-> "write",
              d |-> SubSeq(d, 96 * ((n - 1) \div 2) + 1,
                           Min(96 * ((n + 1) \div 2), Len(d)))]
        ELSE [t |-> "pace", d |-> <<>>]]

\* C5: during a send_data(data, retries), retries >= 1, in which no call on
\* the peripheral has failed, the link has seen the chunks data[0:96],
\* data[96:192], ... in this order, each followed by one pacing sleep, up to
\* the offset reached; it ends returning None with all of them written.  A
\* print without failure has written the chunks of its packets, packet by
\* packet.
C5_ChunkedInOrder ==
    /\ (op = "send_data" /\ clean /\ sendFrame.retries >= 1) =>
          LET exp == C5_Chunks(sendFrame.data) IN
          /\ Len(wire) <= Len(exp)
          /\ wire = SubSeq(exp, 1, Len(wire))
          /\ pc = "s_write" => Len(wire) = 2 * (sendFrame.j \div 96)
          /\ pc = "idle" => result = "None" /\ wire = exp
    /\ (Done("print") /\ clean) =>
          wire = Flatten([k \in 1..Len(printFrame.packets) |->
                             C5_Chunks(printFrame.packets[k])])

\* C5: a send_data of 193 bytes has returned after three chunks without any
\* failure.
C5_Witness ==
    /\ Done("send_data")
    /\ clean
    /\ result = "None"
    /\ Len(sendFrame.data) = 2 * 96 + 1
    /\ Len(wire) = 6

\* The errors with which the code reports a missing connection:
\* RuntimeError("Not connected to device") of send_data and
\* BluetoothDeviceError of the peripheral property.
NotReadyErrors == {"RuntimeError", "BluetoothDeviceError"}

\* C6: a print() started on a device that is not Ready ends with a not-ready
\* error, raised as such or as the cause of the print error, and has written
\* nothing.
C6_NotReadyError ==
    (Done("print") /\ ~PreReady) =>
        /\ result \in NotReadyErrors \/ cause \in NotReadyErrors
        /\ wire = <<>>

\* C7: after a print() on a Ready device that failed because the link was
\* lost, the device is not Ready; after a print() that returned True the
\* handles are those it started with.
C7_FailedPrintLeavesDisconnected ==
    /\ (Done("print") /\ PreReady /\ result = "PristarP15LabelerError" /\ cause = DISC)
          => ~Ready
    /\ (Done("print") /\ result = "True") =>
          /\ peripheral = pre.peripheral
          /\ characteristic = pre.characteristic

\* C8: when disconnect() has ended it has returned None (not raised) and both
\* handles are cleared, whatever the close did; called without a peripheral
\* it closes nothing and leaves the handles and the links as they were.
C8_DisconnectClears ==
    Done("disconnect") =>
        /\ result = "None"
        /\ peripheral = 0
        /\ characteristic = 0
        /\ pre.peripheral # 0 => wire = <<Close>>
        /\ pre.peripheral = 0 =>
              /\ wire = <<>>
              /\ pre.characteristic = 0
              /\ up = pre.up

\* C8: a disconnect() whose close raised has ended.
C8_Witness ==
    /\ Done("disconnect")
    /\ pre.peripheral # 0
    /\ ~clean

\* C9: is_ready has returned True or False, False when there is no
\* peripheral, and the handles are as before.
C9_ProbeReturnsBoolean ==
    Done("is_ready") =>
        /\ result \in {"True", "False"}
        /\ pre.peripheral = 0 => result = "False"
        /\ peripheral = pre.peripheral
        /\ characteristic = pre.characteristic

\* C10: the packet encoded from a raster of width W >= 1 and height H >= 1
\* has W * ceil(H / 8) bytes.
C10_EncodedLength ==
    op = "encode" => Len(packet) = image.w * ((image.h + 7) \div 8)

\* Bit k of the byte v.
Bit(v, k) == (v \div Pow2(k)) % 2

\* C11: the packet encoded from a raster whose only dark pixel is at column
\* c, row r has exactly one byte that is not zero; this byte lies in the
\* block of column c, in the group whose origin o (H-8, H-16, ...) has
\* o <= r < o + 8, and its only set bit is bit r - o.
C11_SinglePixelSingleBit ==
    (op = "encode" /\ Cardinality(image.dark) = 1) =>
        LET p == CHOOSE q \in image.dark : TRUE
            c == p[1]
            r == p[2]
        IN  /\ Len(packet) % image.w = 0
            /\ \E b \in 1..Len(packet) :
                  LET n == Len(packet) \div image.w
                      o == image.h - 8 - 8 * ((b - 1) % n)
                  IN  /\ (b - 1) \div n = c
                      /\ o <= r
                      /\ r < o + 8
                      /\ packet[b] = Pow2(r - o)
                      /\ \A a \in 1..Len(packet) : a # b => packet[a] = 0

\* C12: every set bit of the encoded packet is the bit of a dark pixel of the
\* raster, in a row of 0..H-1; the packet of an all-light raster has only
\* zero bytes.
C12_SetBitsAreDarkPixels ==
    op = "encode" =>
        /\ \A b \in 1..Len(packet) :
              /\ packet[b] \in 0..255
              /\ \A k \in 0..7 :
                    Bit(packet[b], k) = 1 =>
                        LET n == Len(packet) \div image.w
                            x == (b - 1) \div n
                            y == image.h - 8 - 8 * ((b - 1) % n) + k
                        IN  /\ y >= 0
                            /\ y < image.h
                            /\ <<x, y>> \in image.dark
        /\ image.dark = {} => \A b \in 1..Len(packet) : packet[b] = 0

\* C12: a raster whose height is not a multiple of 8 has been encoded into a
\* packet with a set bit.
C12_Witness ==
    /\ op = "encode"
    /\ image.h % 8 # 0
    /\ \E b \in 1..Len(packet) : packet[b] # 0

\* C13: a scan() on a manager that held 2 devices, in which the USB
\* enumeration found nothing or failed with a USB error, has emptied the
\* device set and raised DeviceManagerNoDevices.
C13_EmptyScanClearsAndRaises ==
    (/\ op = "scan"
     /\ Cardinality(DOMAIN mgr.preDevices) = 2
     /\ mgr.usb.raises \in {"none", "NoBackendError", "USBError"}
     /\ mgr.usb.found = {}) =>
        /\ DOMAIN devices = {}
        /\ result = "DeviceManagerNoDevices"

\* The hashes a scan enumerates: those of the USB devices found that have
\* one, and the address of the Pristar P15 entry.
EnumeratedHashes(usb) ==
    {d.hash : d \in {e \in usb.found : e.hash # <<>>}} \cup {PristarAddress}

\* C14: after a scan() that returned, the keys of the device set are the
\* hashes the scan enumerated, and it returned True exactly when these keys
\* are not the keys before the call.
C14_KeysFollowScan ==
    (op = "scan" /\ result \in {"True", "False"}) =>
        /\ DOMAIN devices = EnumeratedHashes(mgr.usb)
        /\ (result = "True") <=> (DOMAIN devices # DOMAIN mgr.preDevices)

\* C14: a scan() has returned True after removing one key and adding
\* another.
C14_Witness ==
    /\ op = "scan"
    /\ result = "True"
    /\ DOMAIN mgr.preDevices \ DOMAIN devices # {}
    /\ DOMAIN devices \ DOMAIN mgr.preDevices # {}

\* C15: a scan() that follows a scan() with the same enumeration result
\* returns False and leaves the device set as it was: the same keys with the
\* same instances, none of them constructed by this scan.
C15_RepeatedScanUnchanged ==
    (/\ op = "scan"
     /\ mgr.scans >= 2
     /\ mgr.usb = mgr.lastUsb
     /\ mgr.usb.raises \in {"none", "NoBackendError", "USBError"}) =>
        /\ result = "False"
        /\ devices = mgr.preDevices
        /\ \A h \in DOMAIN devices : devices[h][1] < mgr.scans

\* C15: a second scan() has found the same two USB devices as the first.
C15_Witness ==
    /\ op = "scan"
    /\ mgr.scans = 2
    /\ mgr.usb = mgr.lastUsb
    /\ {UsbOther, UsbLabel} \subseteq mgr.usb.found
    /\ result = "False"

C17_ManagerLeavesConnections ==
    (op \in {"scan", "devices", "matching_devices", "find_and_select_device"}) =>
        /\ \A id \in DOMAIN mgr.preHeap :
              id \in DOMAIN heap /\ heap[id] = mgr.preHeap[id]
        /\ \A h \in DOMAIN devices \cap DOMAIN mgr.preDevices :
              devices[h] = mgr.preDevices[h]
        /\ op # "scan" => devices = mgr.preDevices

\* C17: a scan() has dropped a connected device and kept another connected
\* device.
C17_Witness ==
    /\ op = "scan"
    /\ \E h \in DOMAIN mgr.preDevices \ DOMAIN devices :
          heap[mgr.preDevices[h]].peripheral # 0
    /\ \E h \in DOMAIN devices \cap DOMAIN mgr.preDevices :
          heap[devices[h]].peripheral # 0

\* The name contains every pattern, letter case aside.
C18_Matches(name, patterns) ==
    \/ patterns.none
    \/ \A n \in 1..Len(patterns.list) :
          LET pat == patterns.list[n]
              fold(c) == IF c \in 65..90 THEN c + 32 ELSE c
          IN  \E i \in 0..(Len(name) - Len(pat)) :
                 \A j \in 1..Len(pat) : fold(pat[j]) = fold(name[i + j])

C19_TapeSizeSetter ==
    op = "tape_size_mm" =>
        /\ tapeCall.value # 12 =>
              result = "ValueError" /\ tape_size_mm = tapeCall.previous
        /\ tapeCall.value = 12 =>
              result = "None" /\ tape_size_mm = 12
        /\ peripheral = pre.peripheral
        /\ characteristic = pre.characteristic
        /\ up = pre.up
        /\ wire = <<>>

\* C19: 9 has been assigned to the tape size of a connected device
\* constructed with tape size 6.
C19_Witness ==
    /\ op = "tape_size_mm"
    /\ tapeCall.value = 9
    /\ tapeCall.previous = 6
    /\ Ready
    /\ result = "ValueError"

\* C20: a print() that has returned True has written at least as many bytes
\* as its packets have together (every packet was written completely at
\* least once).
C20_SuccessMeansAllWritten ==
    (Done("print") /\ result = "True") =>
        Len(WrittenBytes(wire)) >= Len(Flatten(printFrame.packets))

\* C21: between calls the characteristic is set exactly when the peripheral
\* is set, and it is the characteristic of the peripheral held; so a device
\* that is Ready has the characteristic of its peripheral.
C21_CharacteristicOfPeripheral ==
    pc = "idle" =>
        /\ (characteristic # 0) <=> (peripheral # 0)
        /\ peripheral # 0 => characteristic = peripheral
        /\ Ready => characteristic = peripheral

\* C22: a print() that has returned True has written no more bytes than its
\* packets have together: no chunk went to the link twice.
C22_NoChunkTwice ==
    (Done("print") /\ result = "True") =>
        Len(WrittenBytes(wire)) <= Len(Flatten(printFrame.packets))

\* C23: between calls at most one of the peripherals the device refers to
\* (through _peripheral or through _characteristic) has its link up.
C23_AtMostOneChannel ==
    pc = "idle" => Cardinality(up) <= 1

\* The number of chunks of packet p.
C24_Chunks(p) == (Len(p) + 95) \div 96

RECURSIVE C24_Sum(_)
C24_Sum(ns) == IF ns = <<>> THEN 0 ELSE Head(ns) + C24_Sum(Tail(ns))

\* The counts of C24: a connect(retries) has made at most `retries`
\* Peripheral(address) calls; a send_data(data, retries) is in a pass
\* numbered below `retries`, has started at most `retries` passes and has
\* made at most retries - 1 inline connect() calls (none for retries = 0); a
\* print has done at most 5 passes over the chunks of each of its packets.
C24_Counts ==
    /\ connectFrame.active =>
          /\ connectFrame.opens <= connectFrame.retries
          /\ pc \in {"c_open", "c_mtu", "c_char"} => connectFrame.i < connectFrame.retries
    /\ sendFrame.active =>
          /\ sendFrame.i <= sendFrame.retries
          /\ pc = "s_write" => sendFrame.i < sendFrame.retries
          /\ sendFrame.reconnects <= IF sendFrame.retries = 0 THEN 0
                                     ELSE sendFrame.retries - 1
          /\ sendFrame.reconnects <= sendFrame.i + 1
    /\ op = "print" =>
          Len(wire) <= 2 * 5 * C24_Sum([k \in 1..Len(printFrame.packets) |->
                                           C24_Chunks(printFrame.packets[k])])

\* C24: the counts hold in every state, and every call of connect(),
\* send_data() and print() that has started ends: it returns or raises.
C24_CallsTerminate ==
    /\ []C24_Counts
    /\ (pc # "idle") ~> (pc = "idle")

\* C24: a print() of a raster of more than one chunk has returned True
\* after repeated passes: more writes than its packets have chunks.
C24_Witness ==
    /\ Done("print")
    /\ result = "True"
    /\ \E k \in 1..Len(printFrame.packets) : Len(printFrame.packets[k]) > 96
    /\ Len(WrittenBytes(wire)) > Len(Flatten(printFrame.packets)) + 96

\* The chunks written, in order.
C25_Written(w) ==
    LET IsWrite(e) == e.t = "write"
        writes == SelectSeq(w, IsWrite)
    IN  [n \in 1..Len(writes) |-> writes[n].d]

\* C25: the script's bitmap_to_packet and the library's _bitmap_to_packet
\* give the same bytes for the same raster, and on links that never fail
\* send_print_job and print, given the same raster and segmented_paper, both
\* return True after writing the same sequence of chunks.
C25_SameProtocol ==
    /\ (script.encoded /\ op = "encode") => script.packet = packet
    /\ (/\ Done("print")
        /\ clean
        /\ script.sent
        /\ script.result = "True"
        /\ script.segmented_paper = printFrame.segmented_paper) =>
          /\ result = "True"
          /\ C25_Written(wire) = C25_Written(script.wire)

\* C25: both programs have printed a raster whose payload takes two chunks.
C25_Witness ==
    /\ Done("print")
    /\ clean
    /\ script.sent
    /\ script.result = "True"
    /\ script.segmented_paper = printFrame.segmented_paper
    /\ script.encoded
    /\ Len(script.packet) > 96
    /\ Len(C25_Written(wire)) = 6

====
